---- MODULE Spec2Model ----
(***************************************************************************)
(* Model of prisma-client-py's raw query result deserializer               *)
(* (src/prisma/_raw_query.py) and of its binary cache manager              *)
(* (src/prisma/binaries/binaries.py).                                      *)
(*                                                                         *)
(* Python values are modelled by records of one shape, so that any two of  *)
(* them can be compared: k is the Python type, s a string payload, n an    *)
(* integer payload and items the contained values.  A dict is the sequence *)
(* key1, value1, key2, value2, ... in insertion order.  A raised exception *)
(* is the value an operator yields instead of its result; every caller     *)
(* passes it on unchanged, as the code has no try/except.                  *)
(***************************************************************************)
EXTENDS Integers, Sequences, FiniteSets, TLC

VARIABLES
    raw_list,   \* deserialize_raw_results: the raw_list argument
    model,      \* deserialize_raw_results: the model argument, "None" or a model class
    py311,      \* the interpreter is Python 3.11 or later (datetime.fromisoformat accepts "Z")
    result,     \* what the deserialize_raw_results call returned or raised
    exists,     \* the binaries whose path.exists() is true
    environ,    \* os.environ restricted to the five override variables
    call        \* the last Binary Cache Manager call: what it did and how it ended

rawVars == <<raw_list, model, py311, result>>
binVars == <<exists, environ, call>>
vars == <<raw_list, model, py311, result, exists, environ, call>>

(***************************************************************************)
(* Python values                                                           *)
(***************************************************************************)
Val(k, s, n, items) == [k |-> k, s |-> s, n |-> n, items |-> items]

PyNone == Val("None", "", 0, <<>>)
PyStr(s) == Val("str", s, 0, <<>>)
PyInt(n) == Val("int", "", n, <<>>)
PyList(items) == Val("list", "", 0, items)
PyDict(items) == Val("dict", "", 0, items)
\* decimal.Decimal: sign and coefficient digits in s, exponent in n
PyDecimal(digits, exp) == Val("Decimal", digits, exp, <<>>)
\* datetime.datetime: s is "naive" or "aware", n the utc offset in minutes
PyDatetime(fields, aware, offset) ==
    Val("datetime", IF aware THEN "aware" ELSE "naive", offset, fields)
\* a raised exception: its class and its args
PyExc(cls, args) == Val("exception", cls, 0, args)

IsExc(v) == v.k = "exception"
IsStr(v) == v.k = "str"

DictLen(d) == Len(d.items) \div 2
DictKey(d, i) == d.items[2 * i - 1]
DictValue(d, i) == d.items[2 * i]
DictHas(d, key) == \E i \in 1..DictLen(d) : DictKey(d, i) = PyStr(key)
\* d[key]; raises KeyError(key) when the key is absent
DictGet(d, key) ==
    IF DictHas(d, key)
    THEN DictValue(d, CHOOSE i \in 1..DictLen(d) : DictKey(d, i) = PyStr(key))
    ELSE PyExc("KeyError", <<PyStr(key)>>)

(***************************************************************************)
(* Strings                                                                 *)
(***************************************************************************)
Char(s, i) == SubSeq(s, i, i)
Digits == {"0", "1", "2", "3", "4", "5", "6", "7", "8", "9"}
IsDigit(c) == c \in Digits
DigitVal(c) ==
    CASE c = "0" -> 0 [] c = "1" -> 1 [] c = "2" -> 2 [] c = "3" -> 3
      [] c = "4" -> 4 [] c = "5" -> 5 [] c = "6" -> 6 [] c = "7" -> 7
      [] c = "8" -> 8 [] c = "9" -> 9

AllDigits(s) == Len(s) > 0 /\ \A i \in 1..Len(s) : IsDigit(Char(s, i))

RECURSIVE DigitsValue(_)
DigitsValue(s) ==
    IF s = "" THEN 0
    ELSE DigitsValue(SubSeq(s, 1, Len(s) - 1)) * 10 + DigitVal(Char(s, Len(s)))

RECURSIVE Strip(_)
Strip(s) ==
    IF s = "" THEN s
    ELSE IF Char(s, 1) = " " THEN Strip(SubSeq(s, 2, Len(s)))
    ELSE IF Char(s, Len(s)) = " " THEN Strip(SubSeq(s, 1, Len(s) - 1))
    ELSE s

RECURSIVE Remove(_, _)
Remove(s, c) ==
    IF s = "" THEN s
    ELSE IF Char(s, 1) = c THEN Remove(SubSeq(s, 2, Len(s)), c)
    ELSE Char(s, 1) \o Remove(SubSeq(s, 2, Len(s)), c)

\* the position of the first character of s that is in cs, or 0
FirstOf(s, cs) ==
    IF \E i \in 1..Len(s) : Char(s, i) \in cs
    THEN CHOOSE i \in 1..Len(s) :
            Char(s, i) \in cs /\ \A j \in 1..(i - 1) : Char(s, j) \notin cs
    ELSE 0

HasSign(s) == Len(s) > 0 /\ Char(s, 1) \in {"+", "-"}
Unsigned(s) == IF HasSign(s) THEN SubSeq(s, 2, Len(s)) ELSE s

\* digits, where single underscores may separate digits
DigitGroups(s) ==
    /\ Len(s) > 0
    /\ \A i \in 1..Len(s) : IsDigit(Char(s, i)) \/ Char(s, i) = "_"
    /\ IsDigit(Char(s, 1)) /\ IsDigit(Char(s, Len(s)))
    /\ \A i \in 1..(Len(s) - 1) : ~(Char(s, i) = "_" /\ Char(s, i + 1) = "_")


(***************************************************************************)
(* Library calls the converters make.  Each is modelled on the grammar it  *)
(* accepts, restricted to plain literals: no NaN or Infinity decimals, no  *)
(* fractional seconds, no string escapes in JSON output.                   *)
(***************************************************************************)
\* the part of s before position pos, or all of s when pos is 0
Before(s, pos) == IF pos = 0 THEN s ELSE SubSeq(s, 1, pos - 1)
\* the part of s after position pos, or nothing when pos is 0
After(s, pos) == IF pos = 0 THEN "" ELSE SubSeq(s, pos + 1, Len(s))
\* the sign a literal starts with
SignOf(s) == IF HasSign(s) /\ Char(s, 1) = "-" THEN -1 ELSE 1

\* int(value), for the stripped text t of value
IntOfText(t, value) ==
    IF DigitGroups(Unsigned(t))
    THEN PyInt(SignOf(t) * DigitsValue(Remove(Unsigned(t), "_")))
    ELSE PyExc("ValueError", <<value>>)

\* int(value)
PyIntOf(value) ==
    IF value.k = "int" THEN value
    ELSE IF value.k # "str" THEN PyExc("TypeError", <<>>)
    ELSE IntOfText(Strip(value.s), value)

\* Decimal of sign, integer part ip, fraction fp and exponent text expstr: the
\* coefficient keeps every digit written
DecimalOfParts(sign, ip, fp, expstr) ==
    IF /\ ip = "" \/ AllDigits(ip)
       /\ fp = "" \/ AllDigits(fp)
       /\ Len(ip) + Len(fp) > 0
       /\ expstr = "" \/ AllDigits(Unsigned(expstr))
    THEN PyDecimal((IF sign < 0 THEN "-" ELSE "") \o ToString(DigitsValue(ip \o fp)),
                   SignOf(expstr) * DigitsValue(Unsigned(expstr)) - Len(fp))
    ELSE PyExc("InvalidOperation", <<>>)

\* Decimal of sign, mantissa and exponent text; hasExp: an exponent marker was written
DecimalOfMantissa(sign, mant, expstr, hasExp) ==
    IF hasExp /\ expstr = "" THEN PyExc("InvalidOperation", <<>>)
    ELSE DecimalOfParts(sign, Before(mant, FirstOf(mant, {"."})),
                        After(mant, FirstOf(mant, {"."})), expstr)

\* Decimal of the text t, stripped and without underscores
DecimalOfText(t) ==
    DecimalOfMantissa(SignOf(t),
                      Before(Unsigned(t), FirstOf(Unsigned(t), {"e", "E"})),
                      After(Unsigned(t), FirstOf(Unsigned(t), {"e", "E"})),
                      FirstOf(Unsigned(t), {"e", "E"}) # 0)

\* decimal.Decimal(value)
PyDecimalOf(value) ==
    IF value.k = "int" THEN PyDecimal(ToString(value.n), 0)
    ELSE IF value.k # "str" THEN PyExc("TypeError", <<>>)
    ELSE DecimalOfText(Remove(Strip(value.s), "_"))

IsLeap(y) == (y % 4 = 0 /\ y % 100 # 0) \/ y % 400 = 0
DaysIn(y, m) ==
    IF m \in {4, 6, 9, 11} THEN 30
    ELSE IF m = 2 THEN (IF IsLeap(y) THEN 29 ELSE 28)
    ELSE 31

Two(s, i) == SubSeq(s, i, i + 1)
\* the number written by the two characters of s at i, when both are digits below bound
TwoBelow(s, i, bound) == AllDigits(Two(s, i)) /\ DigitsValue(Two(s, i)) < bound

\* a day d of month m of year y that exists
IsDay(y, m, d) == y >= 1 /\ m \in 1..12 /\ d \in 1..DaysIn(y, m)

\* YYYY-MM-DD
IsoDate(d) ==
    /\ Len(d) = 10
    /\ AllDigits(SubSeq(d, 1, 4)) /\ Char(d, 5) = "-"
    /\ AllDigits(Two(d, 6)) /\ Char(d, 8) = "-" /\ AllDigits(Two(d, 9))
    /\ IsDay(DigitsValue(SubSeq(d, 1, 4)), DigitsValue(Two(d, 6)), DigitsValue(Two(d, 9)))

\* HH[:MM[:SS]]
IsoTime(t) ==
    /\ Len(t) \in {2, 5, 8}
    /\ TwoBelow(t, 1, 24)
    /\ Len(t) >= 5 => Char(t, 3) = ":" /\ TwoBelow(t, 4, 60)
    /\ Len(t) = 8 => Char(t, 6) = ":" /\ TwoBelow(t, 7, 60)

\* +HH:MM or -HH:MM
IsoOffset(z) ==
    /\ Len(z) = 6
    /\ Char(z, 1) \in {"+", "-"}
    /\ TwoBelow(z, 2, 24)
    /\ Char(z, 4) = ":"
    /\ TwoBelow(z, 5, 60)

\* the number at position i of a time text, 0 where the text ends before it
TimePart(t, i) == IF Len(t) >= i + 1 THEN DigitsValue(Two(t, i)) ELSE 0

\* the datetime of date fields ymd, time text timestr and offset text tzstr; z: the
\* string ended with an accepted "Z"
IsoDatetime(date_string, ymd, timestr, tzstr, z) ==
    IF IsoTime(timestr) /\ (tzstr = "" \/ (IsoOffset(tzstr) /\ ~z))
    THEN PyDatetime(ymd \o <<PyInt(TimePart(timestr, 1)), PyInt(TimePart(timestr, 4)),
                             PyInt(TimePart(timestr, 7))>>,
                    z \/ tzstr # "",
                    IF tzstr = "" THEN 0
                    ELSE SignOf(tzstr) * (60 * DigitsValue(Two(tzstr, 2))
                                          + DigitsValue(Two(tzstr, 5))))
    ELSE PyExc("ValueError", <<date_string>>)

\* the offset text of a time text: from its first sign on
OffsetText(body) ==
    IF FirstOf(body, {"+", "-"}) = 0 THEN ""
    ELSE SubSeq(body, FirstOf(body, {"+", "-"}), Len(body))

\* the datetime of date fields ymd and rest, the text after the separator
IsoTimeOf(date_string, ymd, rest, z) ==
    IF z
    THEN IsoDatetime(date_string, ymd,
                     Before(SubSeq(rest, 1, Len(rest) - 1),
                            FirstOf(SubSeq(rest, 1, Len(rest) - 1), {"+", "-"})),
                     OffsetText(SubSeq(rest, 1, Len(rest) - 1)), TRUE)
    ELSE IsoDatetime(date_string, ymd, Before(rest, FirstOf(rest, {"+", "-"})),
                     OffsetText(rest), FALSE)

\* the date fields of a text that starts with YYYY-MM-DD
DateFields(s) ==
    <<PyInt(DigitsValue(SubSeq(s, 1, 4))), PyInt(DigitsValue(Two(s, 6))),
      PyInt(DigitsValue(Two(s, 9)))>>

\* datetime.fromisoformat(date_string); zulu: this interpreter accepts a "Z" suffix
FromIsoformat(date_string, zulu) ==
    IF date_string.k # "str" THEN PyExc("TypeError", <<>>)
    ELSE IF Len(date_string.s) < 10 \/ ~IsoDate(SubSeq(date_string.s, 1, 10))
    THEN PyExc("ValueError", <<date_string>>)
    ELSE IF Len(date_string.s) = 10
    THEN PyDatetime(DateFields(date_string.s) \o <<PyInt(0), PyInt(0), PyInt(0)>>, FALSE, 0)
    ELSE IsoTimeOf(date_string, DateFields(date_string.s),
                   SubSeq(date_string.s, 12, Len(date_string.s)),
                   zulu /\ Char(date_string.s, Len(date_string.s)) = "Z"
                        /\ Len(date_string.s) > 11)

\* dt.replace(tzinfo=None), where computing dt may have raised
ReplaceTzinfoNone(dt) == IF IsExc(dt) THEN dt ELSE PyDatetime(dt.items, FALSE, 0)

B64Alphabet ==
    {"A", "B", "C", "D", "E", "F", "G", "H", "I", "J", "K", "L", "M",
     "N", "O", "P", "Q", "R", "S", "T", "U", "V", "W", "X", "Y", "Z",
     "a", "b", "c", "d", "e", "f", "g", "h", "i", "j", "k", "l", "m",
     "n", "o", "p", "q", "r", "s", "t", "u", "v", "w", "x", "y", "z",
     "+", "/"} \cup Digits

\* the number of "=" that pad the end of s
Padding(s) ==
    IF Len(s) >= 2 /\ SubSeq(s, Len(s) - 1, Len(s)) = "==" THEN 2
    ELSE IF Len(s) >= 1 /\ Char(s, Len(s)) = "=" THEN 1
    ELSE 0

IsBase64(s) ==
    /\ Len(s) % 4 = 0
    /\ \A i \in 1..(Len(s) - Padding(s)) : Char(s, i) \in B64Alphabet

\* Base64.fromb64(value): a wrapper that hands the payload back as base64
Base64_fromb64(value) ==
    IF value.k = "str" /\ IsBase64(value.s)
    THEN Val("Base64", value.s, 0, <<>>)
    ELSE PyExc("ConversionError", <<value>>)

RECURSIVE JsonText(_)
RECURSIVE JsonJoin(_, _, _)
\* the texts of items[i..], separated by ", "; in a dict every other item is a key
JsonJoin(items, i, isDict) ==
    IF i > Len(items) THEN ""
    ELSE IF isDict
    THEN JsonText(items[i]) \o ": " \o JsonText(items[i + 1])
         \o (IF i + 2 <= Len(items) THEN ", " ELSE "") \o JsonJoin(items, i + 2, isDict)
    ELSE JsonText(items[i])
         \o (IF i + 1 <= Len(items) THEN ", " ELSE "") \o JsonJoin(items, i + 1, isDict)

JsonText(v) ==
    CASE v.k = "None" -> "null"
      [] v.k = "bool" -> (IF v.n = 1 THEN "true" ELSE "false")
      [] v.k = "int" -> ToString(v.n)
      [] v.k = "str" -> "\"" \o v.s \o "\""
      [] v.k = "list" -> "[" \o JsonJoin(v.items, 1, FALSE) \o "]"
      [] v.k = "dict" -> "{" \o JsonJoin(v.items, 1, TRUE) \o "}"

\* json.dumps(value)
json_dumps(value) == PyStr(JsonText(value))

(***************************************************************************)
(* src/prisma/_raw_query.py                                                *)
(***************************************************************************)
\* obj[key] for a str key
Subscript(obj, key) ==
    IF obj.k = "dict" THEN DictGet(obj, key) ELSE PyExc("TypeError", <<>>)

\* f'{value}'
Format(value) ==
    CASE value.k = "str" -> value.s
      [] value.k = "int" -> ToString(value.n)
      [] OTHER -> value.k

_deserialize_date(value, _for_model) == ReplaceTzinfoNone(FromIsoformat(value, py311))

_deserialize_datetime(value, _for_model) == FromIsoformat(value, py311)

_deserialize_bigint(value, _for_model) == PyIntOf(value)

_deserialize_bytes(value, _for_model) == Base64_fromb64(value)

_deserialize_decimal(value, _for_model) == PyDecimalOf(value)

_deserialize_time(value, _for_model) ==
    FromIsoformat(PyStr("1970-01-01T$" \o Format(value) \o "Z"), py311)

\* _deserialize_json, had it encoded every non-string whatever for_model is
_deserialize_json_always(value, for_model) ==
    IF ~IsStr(value) THEN json_dumps(value) ELSE value

_deserialize_json(value, for_model) ==
    IF ~IsStr(value) /\ for_model THEN json_dumps(value) ELSE value

\* the keys of the DESERIALIZERS table
DESERIALIZERS ==
    {"bigint", "bytes", "decimal", "datetime", "date", "time", "array", "json"}

\* prisma_type in _deserializers
InDeserializers(prisma_type) ==
    prisma_type.k = "str" /\ prisma_type.s \in DESERIALIZERS

RECURSIVE _deserialize_array(_, _)
RECURSIVE ArrayLoop(_, _, _, _)

\* _deserializers[prisma_type](value, for_model)
CallDeserializer(prisma_type, value, for_model) ==
    CASE prisma_type.s = "bigint" -> _deserialize_bigint(value, for_model)
      [] prisma_type.s = "bytes" -> _deserialize_bytes(value, for_model)
      [] prisma_type.s = "decimal" -> _deserialize_decimal(value, for_model)
      [] prisma_type.s = "datetime" -> _deserialize_datetime(value, for_model)
      [] prisma_type.s = "date" -> _deserialize_date(value, for_model)
      [] prisma_type.s = "time" -> _deserialize_time(value, for_model)
      [] prisma_type.s = "array" -> _deserialize_array(value, for_model)
      [] prisma_type.s = "json" -> _deserialize_json(value, for_model)

\* the append of _deserialize_array, had it put item in front of arr
ArrayPrepend(value, i, arr, for_model, item) ==
    IF IsExc(item) THEN item
    ELSE ArrayLoop(value, i + 1, <<item>> \o arr, for_model)

\* arr.append(item) and the rest of the loop, unless computing item raised
ArrayAppend(value, i, arr, for_model, item) ==
    IF IsExc(item) THEN item
    ELSE ArrayLoop(value, i + 1, Append(arr, item), for_model)

\* the body of the for loop of _deserialize_array for entry
ArrayEntry(value, i, arr, for_model, prisma_type, prisma_value) ==
    IF IsExc(prisma_type) THEN prisma_type
    ELSE IF IsExc(prisma_value) THEN prisma_value
    ELSE ArrayAppend(value, i, arr, for_model,
                     IF InDeserializers(prisma_type)
                     THEN CallDeserializer(prisma_type, prisma_value, for_model)
                     ELSE prisma_value)

\* the for loop of _deserialize_array, at entry i with arr built so far
ArrayLoop(value, i, arr, for_model) ==
    IF i > Len(value.items) THEN PyList(arr)
    ELSE ArrayEntry(value, i, arr, for_model,
                    Subscript(value.items[i], "prisma__type"),
                    Subscript(value.items[i], "prisma__value"))

_deserialize_array(value, for_model) ==
    IF value.k = "list" THEN ArrayLoop(value, 1, <<>>, for_model)
    ELSE IF value.k \in {"str", "dict"} /\ value.s = "" /\ value.items = <<>>
    THEN PyList(<<>>)
    ELSE PyExc("TypeError", <<>>)

\* model.parse_obj(new_obj): the validator of the model class, which is not part of
\* this module.  "Any" accepts every mapping, "NeedsB" requires a field b.
parse_obj(cls, new_obj) ==
    IF cls = "NeedsB" /\ ~DictHas(new_obj, "b")
    THEN PyExc("ValidationError", <<>>)
    ELSE Val("BaseModel", cls, 0, <<new_obj>>)

RECURSIVE ObjectLoop(_, _, _, _)
\* the assignment of _deserialize_prisma_object, had it caught a failed conversion
\* and left the field out
ObjectAssignSkipping(raw_obj, i, new_obj, for_model, item) ==
    IF IsExc(item) THEN ObjectLoop(raw_obj, i + 1, new_obj, for_model)
    ELSE ObjectLoop(raw_obj, i + 1, new_obj \o <<DictKey(raw_obj, i), item>>, for_model)

\* new_obj[key] = item and the rest of the loop, unless computing item raised
ObjectAssign(raw_obj, i, new_obj, for_model, item) ==
    IF IsExc(item) THEN item
    ELSE ObjectLoop(raw_obj, i + 1, new_obj \o <<DictKey(raw_obj, i), item>>, for_model)

\* the loop body of _deserialize_prisma_object, had it left out a field that lacks
\* a sub-field
ObjectItemSkipping(raw_obj, i, new_obj, for_model, value, prisma_type) ==
    IF IsExc(value) \/ IsExc(prisma_type)
    THEN ObjectLoop(raw_obj, i + 1, new_obj, for_model)
    ELSE ObjectAssign(raw_obj, i, new_obj, for_model,
                      IF InDeserializers(prisma_type)
                      THEN CallDeserializer(prisma_type, value, for_model)
                      ELSE value)

\* the body of the for loop of _deserialize_prisma_object for raw_value
ObjectItem(raw_obj, i, new_obj, for_model, value, prisma_type) ==
    IF IsExc(value) THEN value
    ELSE IF IsExc(prisma_type) THEN prisma_type
    ELSE ObjectAssign(raw_obj, i, new_obj, for_model,
                      IF InDeserializers(prisma_type)
                      THEN CallDeserializer(prisma_type, value, for_model)
                      ELSE value)

\* the for loop of _deserialize_prisma_object, at item i with new_obj built so far
ObjectLoop(raw_obj, i, new_obj, for_model) ==
    IF i > DictLen(raw_obj) THEN PyDict(new_obj)
    ELSE ObjectItem(raw_obj, i, new_obj, for_model,
                    Subscript(DictValue(raw_obj, i), "prisma__value"),
                    Subscript(DictValue(raw_obj, i), "prisma__type"))

\* the part of _deserialize_prisma_object after its loop
ObjectResult(new_obj, cls) ==
    IF IsExc(new_obj) THEN new_obj
    ELSE IF cls # "None" THEN parse_obj(cls, new_obj)
    ELSE new_obj

_deserialize_prisma_object(raw_obj, for_model, cls) ==
    ObjectResult(ObjectLoop(raw_obj, 1, <<>>, for_model), cls)

RECURSIVE RowsLoop(_, _, _, _, _)
\* the row obj joins the list and the comprehension goes on, unless obj raised
RowsAppend(rows, i, out, for_model, cls, obj) ==
    IF IsExc(obj) THEN obj
    ELSE RowsLoop(rows, i + 1, Append(out, obj), for_model, cls)

\* the list comprehensions of deserialize_raw_results, at row i
RowsLoop(rows, i, out, for_model, cls) ==
    IF i > Len(rows) THEN PyList(out)
    ELSE RowsAppend(rows, i, out, for_model, cls,
                    _deserialize_prisma_object(rows[i], for_model, cls))

deserialize_raw_results(rows, cls) ==
    IF cls # "None"
    THEN RowsLoop(rows, 1, <<>>, TRUE, cls)
    ELSE RowsLoop(rows, 1, <<>>, FALSE, "None")

(***************************************************************************)
(* The result sets deserialize_raw_results is applied to: every list of    *)
(* rows whose rows and tagged values, arrays and their elements included,  *)
(* number at most MaxSize in all.                                          *)
(***************************************************************************)
MaxSize == 4

TaggedValue(t, v) ==
    PyDict(<<PyStr("prisma__type"), PyStr(t), PyStr("prisma__value"), v>>)

\* tagged values that lack a sub-field
NoValue == PyDict(<<PyStr("prisma__type"), PyStr("int")>>)
NoType == PyDict(<<PyStr("prisma__value"), PyInt(1)>>)

\* the tagged values rows and arrays are built from: one that passes through, one
\* that converts, one that fails to convert, the two forms of json, the malformed
Leaves ==
    { TaggedValue("int", PyInt(1)),
      TaggedValue("bigint", PyStr("12")),
      TaggedValue("bigint", PyStr("1x")),
      TaggedValue("json", PyStr("{}")),
      TaggedValue("json", PyList(<<PyInt(1)>>)),
      NoValue,
      NoType }

RECURSIVE Trees(_)
RECURSIVE Forests(_)
\* the tagged values made of exactly n tagged values
Trees(n) ==
    IF n = 1 THEN Leaves \cup {TaggedValue("array", PyList(<<>>))}
    ELSE {TaggedValue("array", PyList(f)) : f \in Forests(n - 1)}
\* the sequences of tagged values made of exactly n tagged values
Forests(n) ==
    IF n = 0 THEN {<<>>}
    ELSE UNION {{<<t>> \o f : t \in Trees(k), f \in Forests(n - k)} : k \in 1..n}

FieldName(i) == SubSeq("abcdefgh", i, i)

RECURSIVE Keyed(_, _)
\* the dict items that give the i-th and later values of ts their field names
Keyed(ts, i) ==
    IF i > Len(ts) THEN <<>>
    ELSE <<PyStr(FieldName(i)), ts[i]>> \o Keyed(ts, i + 1)

RECURSIVE RowLists(_)
\* the lists of rows of size exactly n, a row counting for one more than its tagged values
RowLists(n) ==
    IF n = 0 THEN {<<>>}
    ELSE UNION {{<<PyDict(Keyed(fs, 1))>> \o rest :
                    fs \in Forests(k - 1), rest \in RowLists(n - k)} : k \in 1..n}

ResultSets == UNION {RowLists(n) : n \in 0..MaxSize}

\* converter literals, parsable and not, for each tag with a parsing converter
Literals ==
    { TaggedValue("bigint", PyStr("12")),
      TaggedValue("bigint", PyStr("-7")),
      TaggedValue("bigint", PyStr("1x")),
      TaggedValue("decimal", PyStr("10.005")),
      TaggedValue("decimal", PyStr("ten")),
      TaggedValue("datetime", PyStr("2023-01-01T00:00:00+02:00")),
      TaggedValue("datetime", PyStr("2023-01-01T00:00:00Z")),
      TaggedValue("datetime", PyStr("2023-02-30T00:00:00")),
      TaggedValue("date", PyStr("2023-01-01T00:00:00+02:00")),
      TaggedValue("date", PyStr("2023-01-01")),
      TaggedValue("date", PyStr("today")),
      TaggedValue("time", PyStr("12:30:00")),
      TaggedValue("time", PyStr("23:59")),
      TaggedValue("time", PyStr("noon")),
      TaggedValue("bytes", PyStr("aGVsbG8=")),
      TaggedValue("bytes", PyStr("hello!")) }

\* single rows of at most MaxLiterals fields
MaxLiterals == 2

RECURSIVE LiteralSeqs(_)
LiteralSeqs(n) ==
    IF n = 0 THEN {<<>>}
    ELSE {<<t>> \o r : t \in Literals, r \in LiteralSeqs(n - 1)}

LiteralResultSets ==
    UNION {{<<PyDict(Keyed(fs, 1))>> : fs \in LiteralSeqs(n)} : n \in 1..MaxLiterals}

Models == {"None", "Any", "NeedsB"}

NotCalled == Val("pending", "", 0, <<>>)
NoCall == [op |-> "none", before |-> {}, faulty |-> {}, binaries |-> <<>>,
           downloads |-> <<>>, unlinks |-> <<>>, outcome |-> "none"]

InitRaw ==
    /\ raw_list \in ResultSets
    /\ model \in Models
    /\ py311 \in BOOLEAN
    /\ result = NotCalled
    /\ exists = {}
    /\ environ = <<>>
    /\ call = NoCall

InitLiterals ==
    /\ raw_list \in LiteralResultSets
    /\ model \in Models
    /\ py311 \in BOOLEAN
    /\ result = NotCalled
    /\ exists = {}
    /\ environ = <<>>
    /\ call = NoCall

\* a caller invokes deserialize_raw_results(raw_list, model)
DeserializeRawResults ==
    /\ result = NotCalled
    /\ result' = deserialize_raw_results(raw_list, model)
    /\ UNCHANGED <<raw_list, model, py311, exists, environ, call>>

NextRaw == DeserializeRawResults

\* the deserializer on result sets of rows and arrays
SpecRaw == InitRaw /\ [][NextRaw]_vars
\* the deserializer on rows of converter literals
SpecLiterals == InitLiterals /\ [][NextRaw]_vars

(***************************************************************************)
(* src/prisma/binaries/binaries.py                                         *)
(***************************************************************************)
PRISMA_CLI_NAME == "prisma-cli"

ENGINES == <<"query-engine", "migration-engine", "introspection-engine", "prisma-fmt">>

BINARIES == ENGINES \o <<PRISMA_CLI_NAME>>

\* the env attribute of each binary
EnvOf(name) ==
    CASE name = "query-engine" -> "PRISMA_QUERY_ENGINE_BINARY"
      [] name = "migration-engine" -> "PRISMA_MIGRATION_ENGINE_BINARY"
      [] name = "introspection-engine" -> "PRISMA_INTROSPECTION_ENGINE_BINARY"
      [] name = "prisma-fmt" -> "PRISMA_FMT_BINARY"
      [] name = PRISMA_CLI_NAME -> "PRISMA_CLI_BINARY"

BinaryNames == {BINARIES[i] : i \in 1..Len(BINARIES)}
EnvNames == {EnvOf(b) : b \in BinaryNames}
EnvValues == {"", "/opt/prisma/custom"}

\* os.environ.get(name)
os_environ_get(name) ==
    IF name \in DOMAIN environ THEN PyStr(environ[name]) ELSE PyNone

\* the truth value of a str or None
Truthy(v) == v.k = "str" /\ v.s # ""

\* uses_custom_binaries, had it also required the override of the CLI
uses_custom_binaries_and_cli ==
    /\ Truthy(os_environ_get("PRISMA_QUERY_ENGINE_BINARY"))
    /\ Truthy(os_environ_get("PRISMA_MIGRATION_ENGINE_BINARY"))
    /\ Truthy(os_environ_get("PRISMA_INTROSPECTION_ENGINE_BINARY"))
    /\ Truthy(os_environ_get("PRISMA_FMT_BINARY"))
    /\ Truthy(os_environ_get("PRISMA_CLI_BINARY"))

\* uses_custom_binaries, had it left the query engine's override out
uses_custom_binaries_but_query ==
    /\ Truthy(os_environ_get("PRISMA_MIGRATION_ENGINE_BINARY"))
    /\ Truthy(os_environ_get("PRISMA_INTROSPECTION_ENGINE_BINARY"))
    /\ Truthy(os_environ_get("PRISMA_FMT_BINARY"))

uses_custom_binaries ==
    IF /\ Truthy(os_environ_get("PRISMA_QUERY_ENGINE_BINARY"))
       /\ Truthy(os_environ_get("PRISMA_MIGRATION_ENGINE_BINARY"))
       /\ Truthy(os_environ_get("PRISMA_INTROSPECTION_ENGINE_BINARY"))
       /\ Truthy(os_environ_get("PRISMA_FMT_BINARY"))
    THEN TRUE
    ELSE FALSE

\* binary.path.exists(), on the files of disk
PathExists(binary, disk) == binary \in disk

\* binary.download(): raises for the binaries of faulty, else leaves the file at its path
DownloadRaises(binary, faulty) == binary \in faulty
Downloaded(binary, disk) == disk \cup {binary}

\* binary.path.unlink(): raises for the binaries of faulty, else removes the file
UnlinkRaises(binary, faulty) == binary \in faulty
Unlinked(binary, disk) == disk \ {binary}

\* the first loop of ensure_cached, had it put each missing binary in front
RECURSIVE MissingLoopReversed(_, _, _)
MissingLoopReversed(i, binaries, disk) ==
    IF i > Len(BINARIES) THEN binaries
    ELSE IF PathExists(BINARIES[i], disk)
    THEN MissingLoopReversed(i + 1, binaries, disk)
    ELSE MissingLoopReversed(i + 1, <<BINARIES[i]>> \o binaries, disk)

\* the first loop of ensure_cached, at BINARIES[i] with the missing binaries found so far
RECURSIVE MissingLoop(_, _, _)
MissingLoop(i, binaries, disk) ==
    IF i > Len(BINARIES) THEN binaries
    ELSE IF PathExists(BINARIES[i], disk)
    THEN MissingLoop(i + 1, binaries, disk)
    ELSE MissingLoop(i + 1, Append(binaries, BINARIES[i]), disk)

\* the download loop of ensure_cached, had it caught a failed download and gone on
RECURSIVE DownloadLoopContinue(_, _, _, _, _)
DownloadLoopContinue(binaries, i, disk, downloads, faulty) ==
    IF i > Len(binaries)
    THEN [exists |-> disk, downloads |-> downloads, outcome |-> "returned"]
    ELSE IF DownloadRaises(binaries[i], faulty)
    THEN DownloadLoopContinue(binaries, i + 1, disk, Append(downloads, binaries[i]), faulty)
    ELSE DownloadLoopContinue(binaries, i + 1, Downloaded(binaries[i], disk),
                              Append(downloads, binaries[i]), faulty)

\* the download loop of ensure_cached, at binaries[i]
RECURSIVE DownloadLoop(_, _, _, _, _)
DownloadLoop(binaries, i, disk, downloads, faulty) ==
    IF i > Len(binaries)
    THEN [exists |-> disk, downloads |-> downloads, outcome |-> "returned"]
    ELSE IF DownloadRaises(binaries[i], faulty)
    THEN [exists |-> disk, downloads |-> Append(downloads, binaries[i]),
          outcome |-> "DownloadError"]
    ELSE DownloadLoop(binaries, i + 1, Downloaded(binaries[i], disk),
                      Append(downloads, binaries[i]), faulty)

\* ensure_cached() on the files of disk: the files it leaves, the downloads it
\* attempted in order, and whether it returned the cache directory or raised
ensure_cached(disk, faulty) ==
    LET binaries == MissingLoop(1, <<>>, disk)
    IN  IF binaries = <<>> \/ uses_custom_binaries
        THEN [exists |-> disk, downloads |-> <<>>, outcome |-> "returned"]
        ELSE DownloadLoop(binaries, 1, disk, <<>>, faulty)

\* the loop of remove_all, had it unlinked without asking whether the file exists
RECURSIVE UnlinkLoopUnchecked(_, _, _, _)
UnlinkLoopUnchecked(i, disk, unlinks, faulty) ==
    IF i > Len(BINARIES)
    THEN [exists |-> disk, unlinks |-> unlinks, outcome |-> "returned"]
    ELSE IF UnlinkRaises(BINARIES[i], faulty) \/ ~PathExists(BINARIES[i], disk)
    THEN [exists |-> disk, unlinks |-> Append(unlinks, BINARIES[i]), outcome |-> "OSError"]
    ELSE UnlinkLoopUnchecked(i + 1, Unlinked(BINARIES[i], disk),
                             Append(unlinks, BINARIES[i]), faulty)

\* the loop of remove_all, at BINARIES[i]
RECURSIVE UnlinkLoop(_, _, _, _)
UnlinkLoop(i, disk, unlinks, faulty) ==
    IF i > Len(BINARIES)
    THEN [exists |-> disk, unlinks |-> unlinks, outcome |-> "returned"]
    ELSE IF PathExists(BINARIES[i], disk)
    THEN IF UnlinkRaises(BINARIES[i], faulty)
         THEN [exists |-> disk, unlinks |-> Append(unlinks, BINARIES[i]),
               outcome |-> "OSError"]
         ELSE UnlinkLoop(i + 1, Unlinked(BINARIES[i], disk),
                         Append(unlinks, BINARIES[i]), faulty)
    ELSE UnlinkLoop(i + 1, disk, unlinks, faulty)

remove_all(disk, faulty) == UnlinkLoop(1, disk, <<>>, faulty)

\* the faults of a call that acts on the binaries of bs: no operation fails, or
\* the operation on one of them does
Faults(bs) == {{}} \cup {{b} : b \in bs}

InitBin ==
    /\ exists \in SUBSET BinaryNames
    /\ environ \in UNION {[D -> EnvValues] : D \in SUBSET EnvNames}
    /\ call = NoCall
    /\ raw_list = <<>>
    /\ model = "None"
    /\ py311 = TRUE
    /\ result = NotCalled

EnsureCached ==
    \E faulty \in Faults(BinaryNames \ exists) :
        LET r == ensure_cached(exists, faulty)
        IN  /\ exists' = r.exists
            /\ call' = [op |-> "ensure_cached", before |-> exists, faulty |-> faulty,
                        binaries |-> MissingLoop(1, <<>>, exists),
                        downloads |-> r.downloads, unlinks |-> <<>>,
                        outcome |-> r.outcome]
            /\ UNCHANGED <<environ, raw_list, model, py311, result>>

RemoveAll ==
    \E faulty \in Faults(exists) :
        LET r == remove_all(exists, faulty)
        IN  /\ exists' = r.exists
            /\ call' = [op |-> "remove_all", before |-> exists, faulty |-> faulty,
                        binaries |-> <<>>, downloads |-> <<>>, unlinks |-> r.unlinks,
                        outcome |-> r.outcome]
            /\ UNCHANGED <<environ, raw_list, model, py311, result>>

NextBin == EnsureCached \/ RemoveAll

SpecBin == InitBin /\ [][NextBin]_vars

(***************************************************************************)
(* Properties of the binary cache manager, under SpecBin                   *)
(***************************************************************************)
\* the binaries of BINARIES, in the declared order, that are absent from disk
MissingFrom(disk) == SelectSeq(BINARIES, LAMBDA b : b \notin disk)
\* the binaries of BINARIES, in the declared order, that are on disk
PresentOn(disk) == SelectSeq(BINARIES, LAMBDA b : b \in disk)
\* the override variable of a binary is set to a non-empty value
Overridden(binary) == EnvOf(binary) \in DOMAIN environ /\ environ[EnvOf(binary)] # ""
\* all 4 engine override variables are non-empty
EnginesOverridden == \A i \in 1..Len(ENGINES) : Overridden(ENGINES[i])
EnsureCachedCalled == call.op = "ensure_cached"
RemoveAllCalled == call.op = "remove_all"

\* C4: when every required binary is cached, or all 4 engine overrides are
\* non-empty, ensure_cached downloads nothing, leaves the disk alone and returns the
\* cache directory; the second case holds whatever is on disk and whatever the CLI
\* override is.
C4_NoDownloadWhenCachedOrOverridden ==
    (EnsureCachedCalled /\ (BinaryNames \subseteq call.before \/ EnginesOverridden))
        => /\ call.downloads = <<>>
           /\ call.outcome = "returned"
           /\ exists = call.before

\* ensure_cached has returned with the engines overridden, the CLI override unset and
\* binaries, the CLI among them, missing from the disk
C4_Witness ==
    /\ EnsureCachedCalled
    /\ EnginesOverridden
    /\ "PRISMA_CLI_BINARY" \notin DOMAIN environ
    /\ PRISMA_CLI_NAME \notin call.before
    /\ "query-engine" \notin call.before
    /\ call.downloads = <<>>
    /\ call.outcome = "returned"

\* C5: a successful ensure_cached that found binaries missing, the engines not all
\* overridden, attempted a download for exactly the binaries missing when it
\* started, each once, in the declared order.
C5_DownloadsExactlyTheMissingInOrder ==
    (EnsureCachedCalled /\ ~EnginesOverridden /\ call.outcome = "returned")
        => call.downloads = MissingFrom(call.before)

\* ensure_cached has downloaded three binaries around two it found cached
C5_Witness ==
    /\ EnsureCachedCalled
    /\ ~EnginesOverridden
    /\ call.outcome = "returned"
    /\ call.before = {"migration-engine", "prisma-fmt"}
    /\ call.downloads = <<"query-engine", "introspection-engine", PRISMA_CLI_NAME>>

\* C6: when the download of a missing binary fails, ensure_cached raises instead of
\* returning the cache directory, and the downloads it attempted are the missing
\* binaries up to the failed one: none after it, and the failed one once.
C6_DownloadFailureAborts ==
    (EnsureCachedCalled /\ ~EnginesOverridden /\ call.faulty # {})
        => /\ call.outcome = "DownloadError"
           /\ \E n \in 1..Len(MissingFrom(call.before)) :
                /\ call.downloads = SubSeq(MissingFrom(call.before), 1, n)
                /\ call.downloads[n] \in call.faulty
                /\ \A i \in 1..(n - 1) : call.downloads[i] \notin call.faulty

\* ensure_cached has raised at the second of four missing binaries
C6_Witness ==
    /\ EnsureCachedCalled
    /\ call.outcome = "DownloadError"
    /\ Len(MissingFrom(call.before)) = 4
    /\ Len(call.downloads) = 2

\* C9: whenever ensure_cached returns normally, the query engine binary is at its
\* cached path or its override variable is non-empty.
C9_QueryEnginePresentOnReturn ==
    (EnsureCachedCalled /\ call.outcome = "returned")
        => ("query-engine" \in exists \/ Overridden("query-engine"))

\* ensure_cached has returned after downloading a query engine that was neither
\* cached nor overridden
C9_Witness ==
    /\ EnsureCachedCalled
    /\ call.outcome = "returned"
    /\ "query-engine" \notin call.before
    /\ ~Overridden("query-engine")
    /\ "query-engine" \in exists

\* C10: remove_all completes when no deletion fails; it attempts a deletion only for
\* binaries that exist; when it returns it has deleted every binary that existed and
\* none exists any more; on an empty cache it deletes nothing.
C10_RemoveAllDeletesWhatExists ==
    RemoveAllCalled
        => /\ call.faulty = {} => call.outcome = "returned"
           /\ \A i \in 1..Len(call.unlinks) : call.unlinks[i] \in call.before
           /\ call.outcome = "returned"
                => /\ call.unlinks = PresentOn(call.before)
                   /\ exists \cap BinaryNames = {}
           /\ call.before = {} => call.unlinks = <<>> /\ call.outcome = "returned"

\* remove_all has returned after deleting the two binaries that existed
C10_Witness ==
    /\ RemoveAllCalled
    /\ call.outcome = "returned"
    /\ call.before = {"query-engine", PRISMA_CLI_NAME}
    /\ call.unlinks = <<"query-engine", PRISMA_CLI_NAME>>
    /\ exists = {}

(***************************************************************************)
(* Properties of the deserializer, under SpecRaw                           *)
(***************************************************************************)
Called == result # NotCalled
Returned == Called /\ result.k = "list"
ForModel == model # "None"
\* the mapping of row r of the result: a model instance holds the mapping it validated
RowOut(r) ==
    IF result.items[r].k = "BaseModel" THEN result.items[r].items[1] ELSE result.items[r]
\* the rows and fields of the input
Rows == 1..Len(raw_list)
Fields(r) == 1..DictLen(raw_list[r])
FieldIn(r, i) == DictValue(raw_list[r], i)
FieldOut(r, i) == DictValue(RowOut(r), i)

WellFormed(tv) == DictHas(tv, "prisma__type") /\ DictHas(tv, "prisma__value")
TagOf(tv) == IF DictHas(tv, "prisma__type") THEN DictGet(tv, "prisma__type").s ELSE ""
ValueOf(tv) == DictGet(tv, "prisma__value")
IsArray(tv) == WellFormed(tv) /\ TagOf(tv) = "array"
Elements(tv) == ValueOf(tv).items

\* the conversion of a well-formed tagged value: an array maps the conversion over
\* its elements, another tag of the table calls its converter, any other tag keeps
\* the value
RECURSIVE Converted(_, _)
Converted(tv, fm) ==
    IF TagOf(tv) = "array"
    THEN PyList([j \in 1..Len(Elements(tv)) |-> Converted(Elements(tv)[j], fm)])
    ELSE IF TagOf(tv) \in DESERIALIZERS
    THEN CallDeserializer(PyStr(TagOf(tv)), ValueOf(tv), fm)
    ELSE ValueOf(tv)

\* C1: when deserialize_raw_results returns, with or without a model, every
\* array-tagged field has become a list as long as the nested sequence whose j-th
\* item is the conversion of the j-th nested tagged value by the dispatch used for
\* top-level fields, nested arrays converted in the same way and order kept.
C1_ArraysConvertElementwiseInOrder ==
    Returned =>
        \A r \in Rows : \A i \in Fields(r) :
            /\ FieldOut(r, i) = Converted(FieldIn(r, i), ForModel)
            /\ IsArray(FieldIn(r, i)) =>
                /\ FieldOut(r, i).k = "list"
                /\ Len(FieldOut(r, i).items) = Len(Elements(FieldIn(r, i)))
                /\ \A j \in 1..Len(Elements(FieldIn(r, i))) :
                     FieldOut(r, i).items[j]
                        = Converted(Elements(FieldIn(r, i))[j], ForModel)

\* a row with an array of an array of a bigint has been converted for a model
C1_Witness ==
    /\ Returned
    /\ ForModel
    /\ raw_list = <<PyDict(<<PyStr("a"),
            TaggedValue("array", PyList(<<
                TaggedValue("array", PyList(<<TaggedValue("bigint", PyStr("12"))>>))>>))>>)>>
    /\ RowOut(1) = PyDict(<<PyStr("a"), PyList(<<PyList(<<PyInt(12)>>)>>)>>)

\* out is what the json-tagged values of tv, at any depth, have to become
RECURSIVE JsonConverted(_, _, _)
JsonConverted(tv, out, fm) ==
    CASE TagOf(tv) = "json" ->
            out = (IF fm /\ ValueOf(tv).k # "str"
                   THEN PyStr(JsonText(ValueOf(tv)))
                   ELSE ValueOf(tv))
      [] TagOf(tv) = "array" ->
            /\ out.k = "list"
            /\ Len(out.items) = Len(Elements(tv))
            /\ \A j \in 1..Len(Elements(tv)) :
                 JsonConverted(Elements(tv)[j], out.items[j], fm)
      [] OTHER -> TRUE

\* C2: when deserialize_raw_results returns, every json-tagged value, a field or
\* nested in arrays, is its JSON string encoding if a model was given and the value
\* was not a string, and is the value itself if it was a string or no model was
\* given.
C2_JsonEncodedOnlyForModel ==
    Returned =>
        \A r \in Rows : \A i \in Fields(r) :
            JsonConverted(FieldIn(r, i), FieldOut(r, i), ForModel)

\* for a model, a json list has been encoded both as a field and inside an array
C2_Witness ==
    /\ Returned
    /\ model = "Any"
    /\ raw_list = <<PyDict(<<
            PyStr("a"), TaggedValue("json", PyList(<<PyInt(1)>>)),
            PyStr("b"), TaggedValue("array",
                            PyList(<<TaggedValue("json", PyList(<<PyInt(1)>>))>>))>>)>>
    /\ RowOut(1) = PyDict(<<PyStr("a"), PyStr("[1]"),
                            PyStr("b"), PyList(<<PyStr("[1]")>>)>>)

\* tv, or a tagged value nested in it, lacks a sub-field
RECURSIVE Malformed(_)
Malformed(tv) ==
    \/ ~WellFormed(tv)
    \/ /\ TagOf(tv) = "array"
       /\ ValueOf(tv).k = "list"
       /\ \E j \in 1..Len(Elements(tv)) : Malformed(Elements(tv)[j])
HasMalformed == \E r \in Rows : \E i \in Fields(r) : Malformed(FieldIn(r, i))

\* the first of kinds that is not "ok", or "ok"
FirstNotOk(kinds) ==
    IF \A i \in DOMAIN kinds : kinds[i] = "ok" THEN "ok"
    ELSE kinds[CHOOSE i \in DOMAIN kinds :
                    kinds[i] # "ok" /\ \A j \in 1..(i - 1) : kinds[j] = "ok"]
\* the class of the first error that converting tv meets, elements taken in order
RECURSIVE FailureOf(_, _)
FailureOf(tv, fm) ==
    IF ~WellFormed(tv) THEN "KeyError"
    ELSE IF TagOf(tv) = "array"
    THEN FirstNotOk([j \in 1..Len(Elements(tv)) |-> FailureOf(Elements(tv)[j], fm)])
    ELSE IF TagOf(tv) \in DESERIALIZERS
            /\ IsExc(CallDeserializer(PyStr(TagOf(tv)), ValueOf(tv), fm))
    THEN CallDeserializer(PyStr(TagOf(tv)), ValueOf(tv), fm).s
    ELSE "ok"
\* the class of the first error of a row: its fields in order, then its validation,
\* which looks at the names of the fields only
RowFailure(row, fm, cls) ==
    IF FirstNotOk([i \in 1..DictLen(row) |-> FailureOf(DictValue(row, i), fm)]) # "ok"
    THEN FirstNotOk([i \in 1..DictLen(row) |-> FailureOf(DictValue(row, i), fm)])
    ELSE IF cls # "None" /\ IsExc(parse_obj(cls, row)) THEN parse_obj(cls, row).s
    ELSE "ok"
\* the class of the first error of the call, rows taken in order
ResultFailure ==
    FirstNotOk([r \in Rows |-> RowFailure(raw_list[r], ForModel, model)])

\* C3 as stated: a result set with a tagged value that lacks a sub-field makes
\* deserialize_raw_results fail with the error of the missing sub-field.
C3_MalformedRaisesKeyError ==
    (Called /\ HasMalformed) => (IsExc(result) /\ result.s = "KeyError")

\* C3: a result set with a tagged value that lacks a sub-field makes
\* deserialize_raw_results raise and return no row and no list; the error is the one
\* met first, rows, fields and array elements taken in order and a row validated
\* after its fields: the KeyError of the missing sub-field exactly when nothing
\* before it fails.
C3_MalformedRaisesFirstError ==
    (Called /\ HasMalformed) =>
        /\ IsExc(result)
        /\ result.s = ResultFailure
        /\ result.s \in {"KeyError", "ValueError", "ValidationError"}
        /\ (\A r \in Rows : RowFailure(raw_list[r], ForModel, model) \in {"ok", "KeyError"})
              => result.s = "KeyError"

\* the call has raised KeyError for a second row, after a first row that converts
C3_Witness ==
    /\ Called
    /\ Len(raw_list) = 2
    /\ DictLen(raw_list[1]) = 1
    /\ RowFailure(raw_list[1], ForModel, model) = "ok"
    /\ DictLen(raw_list[2]) = 1
    /\ Malformed(FieldIn(2, 1))
    /\ IsExc(result)
    /\ result.s = "KeyError"

(***************************************************************************)
(* Properties of the converters of literals, under SpecLiterals            *)
(***************************************************************************)
\* the tags whose converter parses a literal
ParsingTags == {"bigint", "decimal", "datetime", "date", "time", "bytes"}
\* the converter of the tagged value tv raises
Unparsable(tv) ==
    /\ TagOf(tv) \in ParsingTags
    /\ IsExc(CallDeserializer(PyStr(TagOf(tv)), ValueOf(tv), ForModel))
HasUnparsable == \E r \in Rows : \E i \in Fields(r) : Unparsable(FieldIn(r, i))
\* the first field of the row whose converter raises
FirstUnparsable ==
    CHOOSE i \in Fields(1) :
        Unparsable(FieldIn(1, i)) /\ \A j \in 1..(i - 1) : ~Unparsable(FieldIn(1, j))
\* the exception exc has v among its arguments
Carries(exc, v) == \E k \in 1..Len(exc.items) : exc.items[k] = v

\* a time-tagged field whose value is a well-formed time-only string
TimeField(r, i) ==
    /\ TagOf(FieldIn(r, i)) = "time"
    /\ ValueOf(FieldIn(r, i)).k = "str"
    /\ IsoTime(ValueOf(FieldIn(r, i)).s)
\* the timestamp on 1970-01-01 at the time of day v, in UTC
EpochTime(v) ==
    PyDatetime(<<PyInt(1970), PyInt(1), PyInt(1),
                 PyInt(TimePart(v, 1)), PyInt(TimePart(v, 4)), PyInt(TimePart(v, 7))>>,
               TRUE, 0)

\* C7: a row of well-formed time-tagged values converts, each value v to the
\* timestamp parsed from 1970-01-01T, v and Z: the epoch date, the time of day v and
\* a UTC marker.
C7_TimeBecomesEpochTimestamp ==
    (/\ Called
     /\ model # "NeedsB"
     /\ \A r \in Rows : \A i \in Fields(r) : TimeField(r, i))
        => /\ Returned
           /\ \A r \in Rows : \A i \in Fields(r) :
                FieldOut(r, i) = EpochTime(ValueOf(FieldIn(r, i)).s)

\* the call on a row whose only field is the time 12:30:00 has raised the ValueError
\* of datetime.fromisoformat for a string with a dollar sign in it
C7_Witness ==
    /\ Called
    /\ py311
    /\ raw_list = <<PyDict(<<PyStr("a"), TaggedValue("time", PyStr("12:30:00"))>>)>>
    /\ result = PyExc("ValueError", <<PyStr("1970-01-01T$12:30:00Z")>>)

\* C8 as stated: a literal its converter cannot parse makes deserialize_raw_results
\* fail with an error that carries the name of the field, its tag and its raw value.
C8_ErrorCarriesFieldTagAndValue ==
    (Called /\ HasUnparsable) =>
        /\ IsExc(result)
        /\ Carries(result, DictKey(raw_list[1], FirstUnparsable))
        /\ Carries(result, PyStr(TagOf(FieldIn(1, FirstUnparsable))))
        /\ Carries(result, ValueOf(FieldIn(1, FirstUnparsable)))

\* C8: a literal its converter cannot parse makes deserialize_raw_results raise, and
\* return no row; what reaches the caller is the very exception the converter of the
\* first such field raised, which carries neither the name of the field nor its tag.
C8_ConverterErrorPropagatesUnwrapped ==
    (Called /\ HasUnparsable) =>
        /\ IsExc(result)
        /\ result = CallDeserializer(PyStr(TagOf(FieldIn(1, FirstUnparsable))),
                                     ValueOf(FieldIn(1, FirstUnparsable)), ForModel)
        /\ result.s \in {"ValueError", "InvalidOperation", "ConversionError"}
        /\ ~Carries(result, DictKey(raw_list[1], FirstUnparsable))
        /\ ~Carries(result, PyStr(TagOf(FieldIn(1, FirstUnparsable))))

\* the call has raised the InvalidOperation of a second field, after a first field
\* that converts
C8_Witness ==
    /\ Called
    /\ raw_list = <<PyDict(<<PyStr("a"), TaggedValue("bigint", PyStr("12")),
                             PyStr("b"), TaggedValue("decimal", PyStr("ten"))>>)>>
    /\ result = PyExc("InvalidOperation", <<>>)

====
